---- MODULE Spec2Model ----
(***************************************************************************)
(* Catalog reconciliation (update-catalog.js), its deletion streams        *)
(* (deletion-streams module) and the chunk producers of the dataset        *)
(* generators, as a state machine.                                         *)
(*                                                                         *)
(* One action is one turn of the Node event loop: a stream event handler   *)
(* up to its first await, or the continuation of an await once the store   *)
(* has answered.  The store answers pending calls in any order and at any  *)
(* time; the CSV parser emits 'data' and 'end' without waiting for the     *)
(* promises its async handlers return.                                     *)
(*                                                                         *)
(* Modelling decisions                                                     *)
(*  - a product is [id, price]: price stands for all non-key fields;       *)
(*  - a store call takes effect on the store when it is answered; a        *)
(*    failed call changes nothing;                                         *)
(*  - find() returns the identifiers in ascending order;                   *)
(*  - memory() and timing() (the helpers main wraps updateDataset in)     *)
(*    settle as the function they wrap;                                    *)
(*  - once the process has exited, nothing more happens;                   *)
(*  - CHUNK_SIZE is 1000 in the source and 2 here;                         *)
(*  - a run starts with the baseline products 1..k in the store, k in      *)
(*    0..MaxId, at the baseline price; the file may name any identifier;   *)
(*  - the writable's highWaterMark (16 chunks) is never reached;           *)
(*  - the dataset generator (generate-dataset.js and its ProductStream     *)
(*    version) is a machine of its own, GenSpec: baseline products are     *)
(*    numbered 1..N, the product added with baseline product k has the     *)
(*    identifier NewId(k), and the generator's chunk size and its divisor  *)
(*    of catalogSize (1000 and 10 in the source) are 2 here.               *)
(***************************************************************************)
EXTENDS Integers, Sequences, FiniteSets, TLC

\* ------------------------------------------------------------- bounds
MaxId == 3
MaxRows == 3
CHUNK_SIZE == 2
\* chunk producers on their own: N in 0..MaxItems, B in 1..MaxChunk
MaxItems == 5
MaxChunk == 3
\* the dataset generator: size arguments up to MaxCatalog
MaxCatalog == 3

Ids == 1..MaxId
Prices == {"p0", "p1"}
NoRecord == "none"
Rows == [id : Ids, price : Prices]

VARIABLES
    pc,              \* updateDataset: "count", "find", "stream", "ended", "rejected"
    exit,            \* the process: "running", "success" (exit 0), "fail" (exit 1)
    promise,         \* the Promise updateDataset returns: "pending", "resolved", "rejected"
    run,             \* 1: first reconciliation run, 2: the run repeated on the same file
    store,           \* collection Products: id -> price, or NoRecord
    file,            \* updated-catalog.csv, as far as it has been read
    dbIds,           \* the identifiers find() returned
    products,        \* the buffer `products`
    rowCount,
    bulkData,        \* bulkOps of the bulkWrite pending in a 'data' handler (<<>>: none)
    bulkEnd,         \* bulkOps of the bulkWrite pending in the 'end' handler (<<>>: none)
    metrics,         \* [addedCount, updatedCount, deletedCount]
    delPhase,        \* "none", "piping", "finished"
    delIds,          \* DeleteReadableStream.ids
    readIndex,       \* DeleteReadableStream.index
    readEnded,       \* push(null) done
    wq,              \* chunks written to the DeleteWritableStream, waiting for _write
    writing,         \* the chunk of the deleteMany in flight (<<>>: none)
    reported,        \* logMetrics has printed the summary
    summary,         \* what logMetrics printed
    chunkSizeInScope,   \* whether CHUNK_SIZE resolves in the deletion-streams module:
                        \* "unknown" until the first read that needs it, then "yes"
                        \* (a read that finds it unbound ends the process)
    unhandledMode,      \* what an unhandled rejection does: "unknown" until the
                        \* first one, then "warn" (one that throws ends the process)
    \* history, read by the properties only
    issuedRows,      \* number of operations over all bulkWrite calls issued
    nBulk,           \* bulkWrite calls issued
    nDelete,         \* deleteMany calls issued
    bulkFailed,      \* a bulkWrite call has failed
    deleteFailed,    \* a deleteMany call has failed
    returned,        \* sums of the counts the store returned
    delDone,         \* identifiers of the delete chunks acknowledged
    \* a chunk producer on its own (specification ChunkSpec)
    cKind,           \* "none", "ProductStream", "arrayToStream", "DeleteReadableStream"
    cLen,            \* N: catalogSize, array.length, ids.length
    cSize2,          \* twice the chunk size B (arrayToStream is called with
                     \* catalogSize / 10, which need not be an integer)
    cIndex2,         \* twice the producer's index
    cScope,          \* DeleteReadableStream: whether CHUNK_SIZE resolves
    cOut,            \* the batches pushed so far, items numbered from 1
    cState           \* "reading", "ended" (null pushed), "threw"

\* the dataset generator (specification GenSpec)
VARIABLES
    gVariant,        \* "insertMany" (ProductStream, one insertMany per batch) or
                     \* "insertOne" (arrayToStream, one insertOne per product)
    gSize,           \* the `size` argument as minimist gives it
    gPc,             \* "idle", "check", "connect", "clear", "headers", "read",
                     \* "insert", "done", "threw", "unconnected", "failed"
    gExit,           \* the process: "running", "success", "fail"
    gIo,             \* the kinds of I/O attempted so far
    gStore,          \* identifiers in collection Products
    gHeader,         \* header lines in updated-catalog.csv
    gCsv,            \* data lines in updated-catalog.csv
    gIndex2,         \* twice the index of the stream of baseline products
    gBatch,          \* the batch the for-await loop is processing
    gPending,        \* products of the batch whose insert has not been answered
    gDecision,       \* history: what generateUpdate decided for each baseline product
    gMetrics         \* the generator's metrics

chunkVars == <<cKind, cLen, cSize2, cIndex2, cScope, cOut, cState>>

genVars == <<gVariant, gSize, gPc, gExit, gIo, gStore, gHeader, gCsv, gIndex2, gBatch,
             gPending, gDecision, gMetrics>>

mainVars == <<pc, exit, promise, run, store, file, dbIds, products, rowCount, bulkData,
          bulkEnd, metrics, delPhase, delIds, readIndex, readEnded, wq, writing,
          reported, summary, chunkSizeInScope, unhandledMode, issuedRows, nBulk,
          nDelete, bulkFailed, deleteFailed, returned, delDone>>

\* what updateDataset leaves alone: the chunk producers and the generator
idleVars == <<chunkVars, genVars>>

vars == <<mainVars, chunkVars, genVars>>

\* ------------------------------------------------------------ helpers
Min(a, b) == IF a < b THEN a ELSE b

Range(s) == {s[i] : i \in 1..Len(s)}

\* Array.prototype.slice(from, to) on a 0-based array
Slice(s, from, to) == SubSeq(s, from + 1, Min(to, Len(s)))

RECURSIVE SortedSeq(_)
SortedSeq(S) ==
    IF S = {} THEN <<>>
    ELSE LET m == CHOOSE x \in S : \A y \in S : x <= y
         IN <<m>> \o SortedSeq(S \ {m})

StoreIds(st) == {i \in Ids : st[i] # NoRecord}

\* products.map(p => p._id)
ProductIds(ps) == [i \in 1..Len(ps) |-> ps[i].id]

\* _.difference(array, values): the elements of array not in values, in array's order
Difference(array, values) == SelectSeq(array, LAMBDA x : x \notin Range(values))

MetricsZero == [addedCount |-> 0, updatedCount |-> 0, deletedCount |-> 0]

\* ---------------------------------------------------------- the store
\* bulkWrite of updateOne {filter: {_id}, update: {$set: product}, upsert: true}
\* operations, in order: an absent id is inserted (upsertedCount), a present id
\* whose fields differ is modified (modifiedCount), an identical one is left alone.
RECURSIVE BulkWrite(_, _)
BulkWrite(st, ops) ==
    IF ops = <<>>
    THEN [store |-> st, upsertedCount |-> 0, modifiedCount |-> 0]
    ELSE LET p == Head(ops)
             st1 == [st EXCEPT ![p.id] = p.price]
             rest == BulkWrite(st1, Tail(ops))
         IN [store |-> rest.store,
             upsertedCount |-> rest.upsertedCount + (IF st[p.id] = NoRecord THEN 1 ELSE 0),
             modifiedCount |-> rest.modifiedCount +
                 (IF st[p.id] # NoRecord /\ st[p.id] # p.price THEN 1 ELSE 0)]

\* deleteMany({_id: {$in: chunk}})
DeleteMany(st, chunk) ==
    [store |-> [i \in Ids |-> IF i \in Range(chunk) THEN NoRecord ELSE st[i]],
     deletedCount |-> Cardinality(Range(chunk) \cap StoreIds(st))]

\* ------------------------------------------------- deletion streams
\* DeleteReadableStream._read().  CHUNK_SIZE is a free identifier of that module
\* (update-catalog.js declares its own with const, which is no global): where it
\* does not resolve, the read that needs it throws a ReferenceError.
DeleteReadableRead(ids, index, inScope) ==
    IF index < Len(ids)
    THEN IF inScope
         THEN [kind |-> "chunk", chunk |-> Slice(ids, index, index + CHUNK_SIZE),
               index |-> index + CHUNK_SIZE]
         ELSE [kind |-> "throw", chunk |-> <<>>, index |-> index]
    ELSE [kind |-> "end", chunk |-> <<>>, index |-> index]

\* ---------------------------------------------------- dataset generators
\* ProductStream._read(): the products index+1 .. index+size are generated
ProductStreamRead(catalogSize, chunkSize, index) ==
    IF index < catalogSize
    THEN LET size == Min(chunkSize, catalogSize - index)
         IN [kind |-> "chunk", chunk |-> [j \in 1..size |-> index + j],
             index |-> index + size]
    ELSE [kind |-> "end", chunk |-> <<>>, index |-> index]

\* read() of the Readable arrayToStream returns.  index and chunkSize are
\* numbers, given here doubled; slice truncates its arguments to integers.
arrayToStreamRead(array, chunkSize2, index2) ==
    IF index2 < 2 * Len(array)
    THEN [kind |-> "chunk",
          chunk |-> Slice(array, index2 \div 2, (index2 + chunkSize2) \div 2),
          index2 |-> index2 + chunkSize2]
    ELSE [kind |-> "end", chunk |-> <<>>, index2 |-> index2]

\* `size` as minimist(process.argv.slice(2)) gives it: undefined when the option
\* is absent, a number when its value reads as one, the string otherwise
\* (whole numbers only; --size without a value, which gives true, is left out)
Sizes ==
    {[kind |-> "undefined", n |-> 0], [kind |-> "text", n |-> 0]}
    \cup {[kind |-> "number", n |-> k] : k \in -1..MaxCatalog}

\* !size: undefined and 0 are falsy; a non-zero number and a non-empty string are not
SizeMissing(size) == size.kind = "undefined" \/ (size.kind = "number" /\ size.n = 0)

\* Array.from({length: catalogSize}).length: ToLength of a negative number or of
\* a string that is no number is 0
ArrayLength(size) == IF size.kind = "number" /\ size.n > 0 THEN size.n ELSE 0

\* new ProductStream(catalogSize, createdAt): chunkSize = 1000 in the source
GenChunkSize == 2

\* arrayToStream(allProducts, catalogSize / 10): 10 in the source
GenParts == 2

\* a product: its _id, and v for its other fields ("orig": as generated with the
\* baseline, updatedAt === createdAt; "upd": updated; "new": generated later)
BaseProduct(k) == [id |-> k, v |-> "orig"]

\* uuidv4() of a product generated by generateUpdate: no baseline product has it
NewId(k) == MaxCatalog + k

NoProduct == [id |-> 0, v |-> "null"]

\* the bands of rand = Math.random() * 100 in generateUpdate
Bands == {"delete", "update", "add", "unchanged"}

generateUpdate(product, band) ==
    CASE band = "delete" -> NoProduct
      [] band = "update" -> [id |-> product.id, v |-> "upd"]
      [] band = "add" -> [id |-> NewId(product.id), v |-> "new"]
      [] OTHER -> product

\* Metrics (helpers/metrics): added(), updated(), deleted(), merge(other)
MetricsAdded == [addedCount |-> 1, updatedCount |-> 0, deletedCount |-> 0]
MetricsUpdated == [addedCount |-> 0, updatedCount |-> 1, deletedCount |-> 0]
MetricsDeleted == [addedCount |-> 0, updatedCount |-> 0, deletedCount |-> 1]
MetricsMerge(m, other) ==
    [addedCount |-> m.addedCount + other.addedCount,
     updatedCount |-> m.updatedCount + other.updatedCount,
     deletedCount |-> m.deletedCount + other.deletedCount]

\* writeProductUpdateToCsv: the data lines after the call, and the Metrics returned
writeProductUpdateToCsv(csv, product, updatedProduct) ==
    IF updatedProduct = NoProduct
    THEN [csv |-> csv, metrics |-> MetricsDeleted]
    ELSE IF updatedProduct.id = product.id
    THEN [csv |-> Append(csv, updatedProduct),
          metrics |-> IF updatedProduct.v # "orig" THEN MetricsUpdated ELSE MetricsZero]
    ELSE [csv |-> Append(Append(csv, product), updatedProduct),
          metrics |-> MetricsAdded]

\* the body of the loop over the products of a batch (part_001, lines 59-64):
\* bands[i] is the band rand falls in for the i-th product
RECURSIVE WriteBatch(_, _, _, _)
WriteBatch(csv, m, batch, bands) ==
    IF batch = <<>>
    THEN [csv |-> csv, metrics |-> m]
    ELSE LET product == BaseProduct(Head(batch))
             w == writeProductUpdateToCsv(csv, product,
                                          generateUpdate(product, Head(bands)))
         IN WriteBatch(w.csv, MetricsMerge(m, w.metrics), Tail(batch), Tail(bands))

\* the next batch of baseline products, by the stream the variant reads
GenStreamRead(variant, size, index2) ==
    IF variant = "insertMany"
    THEN IF size.kind = "number"
         THEN LET r == ProductStreamRead(size.n, GenChunkSize, index2 \div 2)
              IN [kind |-> r.kind, chunk |-> r.chunk, index2 |-> 2 * r.index]
         ELSE [kind |-> "end", chunk |-> <<>>, index2 |-> index2]
    ELSE arrayToStreamRead([j \in 1..ArrayLength(size) |-> j],
                           IF size.kind = "number"
                           THEN (2 * size.n) \div GenParts ELSE 0,
                           index2)

\* ------------------------------------------------------ updateDataset
\* updateMetrics with the upsertedCount branch left out
updateMetricsModifiedOnly(m, updateResult) ==
    [m EXCEPT !.updatedCount = IF updateResult.modifiedCount # 0
                               THEN @ + updateResult.modifiedCount ELSE @]

updateMetrics(m, updateResult) ==
    [m EXCEPT !.updatedCount = IF updateResult.modifiedCount # 0
                               THEN @ + updateResult.modifiedCount ELSE @,
              !.addedCount = IF updateResult.upsertedCount # 0
                             THEN @ + updateResult.upsertedCount ELSE @]

Alive == exit = "running"

\* the generator is not running
GenIdle ==
    /\ gVariant = "none"
    /\ gSize = [kind |-> "undefined", n |-> 0]
    /\ gPc = "idle"
    /\ gExit = "running"
    /\ gIo = {}
    /\ gStore = {}
    /\ gHeader = 0
    /\ gCsv = <<>>
    /\ gIndex2 = 0
    /\ gBatch = <<>>
    /\ gPending = {}
    /\ gDecision = [k \in 1..MaxCatalog |-> "none"]
    /\ gMetrics = MetricsZero

Init ==
    /\ pc = "count"
    /\ exit = "running"
    /\ promise = "pending"
    /\ run = 1
    /\ store \in {[i \in Ids |-> IF i <= k THEN "p0" ELSE NoRecord] : k \in 0..MaxId}
    /\ file = <<>>
    /\ dbIds = <<>>
    /\ products = <<>>
    /\ rowCount = 0
    /\ bulkData = <<>>
    /\ bulkEnd = <<>>
    /\ metrics = MetricsZero
    /\ delPhase = "none"
    /\ delIds = <<>>
    /\ readIndex = 0
    /\ readEnded = FALSE
    /\ wq = <<>>
    /\ writing = <<>>
    /\ reported = FALSE
    /\ summary = <<>>
    /\ chunkSizeInScope = "unknown"
    /\ unhandledMode = "unknown"
    /\ issuedRows = 0
    /\ nBulk = 0
    /\ nDelete = 0
    /\ bulkFailed = FALSE
    /\ deleteFailed = FALSE
    /\ returned = MetricsZero
    /\ delDone = {}
    /\ cKind = "none"
    /\ cLen = 0
    /\ cSize2 = 0
    /\ cIndex2 = 0
    /\ cScope = FALSE
    /\ cOut = <<>>
    /\ cState = "ended"
    /\ GenIdle

envVars == <<chunkSizeInScope, unhandledMode, run>>
delVars == <<delPhase, delIds, readIndex, readEnded, wq, writing, delDone>>
csvVars == <<file, products, rowCount>>

\* A rejected promise nobody handles (an async event handler that threw): Node
\* either ends the process with exit code 1 or only warns, by version and flag.
UnhandledRejection ==
    \/ unhandledMode = "unknown" /\ exit' = "fail" /\ unhandledMode' = unhandledMode
    \/ exit' = exit /\ unhandledMode' = "warn"

\* An 'error' event without listener, or an exception outside any promise:
\* the process ends with exit code 1.
UncaughtException == exit' = "fail"

\* await db.collection('Products').count()
CountOk ==
    /\ Alive /\ pc = "count"
    /\ pc' = "find"
    /\ UNCHANGED <<idleVars, exit, promise, store, dbIds, bulkData, bulkEnd, metrics, reported,
                   summary, issuedRows, nBulk, nDelete, bulkFailed, deleteFailed,
                   returned, csvVars, delVars, envVars>>

CountFail ==
    /\ Alive /\ pc = "count"
    /\ pc' = "rejected"
    /\ promise' = "rejected"
    /\ UNCHANGED <<idleVars, exit, store, dbIds, bulkData, bulkEnd, metrics, reported,
                   summary, issuedRows, nBulk, nDelete, bulkFailed, deleteFailed,
                   returned, csvVars, delVars, envVars>>

\* const dbIds = (await find({}, {projection: {_id: 1}}).toArray()).map(o => o._id)
FindOk ==
    /\ Alive /\ pc = "find"
    /\ dbIds' = SortedSeq(StoreIds(store))
    /\ pc' = "stream"
    /\ UNCHANGED <<idleVars, exit, promise, store, bulkData, bulkEnd, metrics, reported,
                   summary, issuedRows, nBulk, nDelete, bulkFailed, deleteFailed,
                   returned, csvVars, delVars, envVars>>

\* a find whose failure stops the function without settling its promise
FindFailUnpropagated ==
    /\ Alive /\ pc = "find"
    /\ pc' = "rejected"
    /\ UNCHANGED <<idleVars, exit, promise, store, dbIds, bulkData, bulkEnd, metrics,
                   reported, summary, issuedRows, nBulk, nDelete, bulkFailed,
                   deleteFailed, returned, csvVars, delVars, envVars>>

FindFail ==
    /\ Alive /\ pc = "find"
    /\ pc' = "rejected"
    /\ promise' = "rejected"
    /\ UNCHANGED <<idleVars, exit, store, dbIds, bulkData, bulkEnd, metrics, reported,
                   summary, issuedRows, nBulk, nDelete, bulkFailed, deleteFailed,
                   returned, csvVars, delVars, envVars>>

\* a 'data' handler that can run while the identifier fetch is still awaited
CsvDataBeforeSnapshot ==
    /\ Alive /\ pc \in {"find", "stream"}
    /\ \E row \in Rows :
        /\ IF rowCount < Len(file)
           THEN row = file[rowCount + 1] /\ file' = file
           ELSE run = 1 /\ Len(file) < MaxRows /\ file' = Append(file, row)
        /\ products' = Append(products, row)
        /\ rowCount' = rowCount + 1
        /\ IF Len(products') = CHUNK_SIZE
           THEN /\ bulkData' = products'
                /\ issuedRows' = issuedRows + Len(products')
                /\ nBulk' = nBulk + 1
           ELSE UNCHANGED <<bulkData, issuedRows, nBulk>>
    /\ UNCHANGED <<idleVars, pc, exit, promise, store, dbIds, bulkEnd, metrics, reported, summary,
                   nDelete, bulkFailed, deleteFailed, returned, delVars, envVars>>

\* .on('data', async (row) => ...) up to its await: the row is buffered and counted,
\* and the buffer is sent when it holds exactly CHUNK_SIZE products.  The stream
\* goes on emitting while the bulkWrite is pending.
CsvData ==
    /\ Alive /\ pc = "stream"
    /\ \E row \in Rows :
        /\ IF rowCount < Len(file)
           THEN row = file[rowCount + 1] /\ file' = file
           ELSE run = 1 /\ Len(file) < MaxRows /\ file' = Append(file, row)
        /\ products' = Append(products, row)
        /\ rowCount' = rowCount + 1
        /\ IF Len(products') = CHUNK_SIZE
           THEN /\ bulkData' = products'
                /\ issuedRows' = issuedRows + Len(products')
                /\ nBulk' = nBulk + 1
           ELSE UNCHANGED <<bulkData, issuedRows, nBulk>>
    /\ UNCHANGED <<idleVars, pc, exit, promise, store, dbIds, bulkEnd, metrics, reported, summary,
                   nDelete, bulkFailed, deleteFailed, returned, delVars, envVars>>

\* the 'data' handler after its await: updateMetrics, logProgress, products = []
BulkDataOk ==
    /\ Alive /\ bulkData # <<>>
    /\ LET updateResult == BulkWrite(store, bulkData)
       IN /\ store' = updateResult.store
          /\ metrics' = updateMetrics(metrics, updateResult)
          /\ returned' = [returned EXCEPT
                 !.addedCount = @ + updateResult.upsertedCount,
                 !.updatedCount = @ + updateResult.modifiedCount]
    /\ products' = <<>>
    /\ bulkData' = <<>>
    /\ UNCHANGED <<idleVars, pc, exit, promise, dbIds, file, rowCount, bulkEnd, reported, summary,
                   issuedRows, nBulk, nDelete, bulkFailed, deleteFailed, delVars,
                   envVars>>

\* the bulkWrite awaited in the 'data' handler rejects: the handler's promise
\* rejects and nothing handles it; products = [] is not reached.
BulkDataFail ==
    /\ Alive /\ bulkData # <<>>
    /\ bulkData' = <<>>
    /\ bulkFailed' = TRUE
    /\ UnhandledRejection
    /\ UNCHANGED <<idleVars, pc, promise, store, dbIds, bulkEnd, metrics, reported, summary,
                   issuedRows, nBulk, nDelete, deleteFailed, returned, csvVars,
                   delVars, chunkSizeInScope, run>>

\* the 'end' handler from `const productIds` on: the deletion set is computed from
\* the buffer as it is now, and the two deletion streams are piped.
StartDeletePhase ==
    /\ delIds' = Difference(dbIds, ProductIds(products))
    /\ delPhase' = "piping"
    /\ readIndex' = 0
    /\ readEnded' = FALSE
    /\ wq' = <<>>
    /\ UNCHANGED <<writing, delDone>>

\* The parser's 'end' event: the async 'end' handler runs up to its await (the
\* rest of the buffer is sent if there is one), then the second listener
\* resolves the promise updateDataset returned.
CsvEnd ==
    /\ Alive /\ pc = "stream"
    /\ rowCount = Len(file)
    /\ pc' = "ended"
    /\ promise' = "resolved"
    /\ IF Len(products) > 0
       THEN /\ bulkEnd' = products
            /\ issuedRows' = issuedRows + Len(products)
            /\ nBulk' = nBulk + 1
            /\ UNCHANGED delVars
       ELSE /\ StartDeletePhase
            /\ UNCHANGED <<bulkEnd, issuedRows, nBulk>>
    /\ UNCHANGED <<idleVars, exit, store, dbIds, bulkData, metrics, reported, summary, nDelete,
                   bulkFailed, deleteFailed, returned, csvVars, envVars>>

\* the 'end' handler after its await
BulkEndOk ==
    /\ Alive /\ bulkEnd # <<>>
    /\ LET updateResult == BulkWrite(store, bulkEnd)
       IN /\ store' = updateResult.store
          /\ metrics' = updateMetrics(metrics, updateResult)
          /\ returned' = [returned EXCEPT
                 !.addedCount = @ + updateResult.upsertedCount,
                 !.updatedCount = @ + updateResult.modifiedCount]
    /\ bulkEnd' = <<>>
    /\ StartDeletePhase
    /\ UNCHANGED <<idleVars, pc, exit, promise, dbIds, bulkData, reported, summary, issuedRows,
                   nBulk, nDelete, bulkFailed, deleteFailed, csvVars, envVars>>

\* the bulkWrite awaited in the 'end' handler rejects: the handler stops there
BulkEndFail ==
    /\ Alive /\ bulkEnd # <<>>
    /\ bulkEnd' = <<>>
    /\ bulkFailed' = TRUE
    /\ UnhandledRejection
    /\ UNCHANGED <<idleVars, pc, promise, store, dbIds, bulkData, metrics, reported, summary,
                   issuedRows, nBulk, nDelete, deleteFailed, returned, csvVars,
                   delVars, chunkSizeInScope, run>>

\* readable.pipe(deleteStream): the readable is read and what it pushes is
\* written to the writable, which queues it while a _write is in progress.
DeleteRead ==
    /\ Alive /\ delPhase = "piping" /\ ~readEnded
    /\ \E inScope \in BOOLEAN :
        /\ chunkSizeInScope = "yes" => inScope
        /\ LET r == DeleteReadableRead(delIds, readIndex, inScope)
           IN /\ readIndex' = r.index
              /\ wq' = IF r.kind = "chunk" THEN Append(wq, r.chunk) ELSE wq
              /\ readEnded' = (r.kind = "end")
              /\ chunkSizeInScope' = IF r.kind = "chunk" THEN "yes" ELSE chunkSizeInScope
              /\ IF r.kind = "throw" THEN UncaughtException ELSE exit' = exit
    /\ UNCHANGED <<idleVars, pc, promise, store, dbIds, bulkData, bulkEnd, metrics, reported,
                   summary, delPhase, delIds, writing, delDone, issuedRows, nBulk,
                   nDelete, bulkFailed, deleteFailed, returned, csvVars,
                   unhandledMode, run>>

\* a writable that starts the next _write without waiting for the callback
DeleteWriteUnserialised ==
    /\ Alive /\ delPhase = "piping"
    /\ wq # <<>>
    /\ writing' = Head(wq)
    /\ wq' = Tail(wq)
    /\ nDelete' = nDelete + 1
    /\ UNCHANGED <<idleVars, pc, exit, promise, store, dbIds, bulkData, bulkEnd, metrics, reported,
                   summary, delPhase, delIds, readIndex, readEnded, delDone, issuedRows,
                   nBulk, bulkFailed, deleteFailed, returned, csvVars, envVars>>

\* DeleteWritableStream._write(chunk) up to its await: one deleteMany is issued
DeleteWrite ==
    /\ Alive /\ delPhase = "piping"
    /\ writing = <<>> /\ wq # <<>>
    /\ writing' = Head(wq)
    /\ wq' = Tail(wq)
    /\ nDelete' = nDelete + 1
    /\ UNCHANGED <<idleVars, pc, exit, promise, store, dbIds, bulkData, bulkEnd, metrics, reported,
                   summary, delPhase, delIds, readIndex, readEnded, delDone, issuedRows,
                   nBulk, bulkFailed, deleteFailed, returned, csvVars, envVars>>

\* _write after its await: deletedCount is added and callback() lets the next
\* chunk through
DeleteOk ==
    /\ Alive /\ writing # <<>>
    /\ LET deleteResult == DeleteMany(store, writing)
       IN /\ store' = deleteResult.store
          /\ metrics' = [metrics EXCEPT !.deletedCount =
                 IF deleteResult.deletedCount # 0
                 THEN @ + deleteResult.deletedCount ELSE @]
          /\ returned' = [returned EXCEPT !.deletedCount = @ + deleteResult.deletedCount]
    /\ delDone' = delDone \cup Range(writing)
    /\ writing' = <<>>
    /\ UNCHANGED <<idleVars, pc, exit, promise, dbIds, bulkData, bulkEnd, reported, summary,
                   delPhase, delIds, readIndex, readEnded, wq, issuedRows, nBulk,
                   nDelete, bulkFailed, deleteFailed, csvVars, envVars>>

\* _write that calls callback() in its catch block as well: the error is dropped
DeleteFailSwallowed ==
    /\ Alive /\ writing # <<>>
    /\ writing' = <<>>
    /\ deleteFailed' = TRUE
    /\ UNCHANGED <<idleVars, pc, exit, promise, store, dbIds, bulkData, bulkEnd, metrics, reported,
                   summary, delPhase, delIds, readIndex, readEnded, wq, delDone,
                   issuedRows, nBulk, nDelete, bulkFailed, returned, csvVars, envVars>>

\* deleteMany rejects: callback(error) makes the writable emit 'error', which has
\* no listener
DeleteFail ==
    /\ Alive /\ writing # <<>>
    /\ writing' = <<>>
    /\ deleteFailed' = TRUE
    /\ UncaughtException
    /\ UNCHANGED <<idleVars, pc, promise, store, dbIds, bulkData, bulkEnd, metrics, reported,
                   summary, delPhase, delIds, readIndex, readEnded, wq, delDone,
                   issuedRows, nBulk, nDelete, bulkFailed, returned, csvVars, envVars>>

\* the writable's 'finish': the readable has ended and every chunk written to
\* the writable has been acknowledged; its listener prints the summary
DeleteFinish ==
    /\ Alive /\ delPhase = "piping"
    /\ readEnded /\ wq = <<>> /\ writing = <<>>
    /\ delPhase' = "finished"
    /\ reported' = TRUE
    /\ summary' = <<[rows |-> rowCount, metrics |-> metrics]>>
    /\ UNCHANGED <<idleVars, pc, exit, promise, store, dbIds, bulkData, bulkEnd, metrics, delIds,
                   readIndex, readEnded, wq, writing, delDone, issuedRows, nBulk,
                   nDelete, bulkFailed, deleteFailed, returned, csvVars, envVars>>

\* ---------------------------------------------------- the entry point
\* main().then(() => { console.log('SUCCESS'); process.exit(0); })
EntrySuccess ==
    /\ Alive /\ promise = "resolved"
    /\ exit' = "success"
    /\ UNCHANGED <<idleVars, pc, promise, store, dbIds, bulkData, bulkEnd, metrics, reported,
                   summary, issuedRows, nBulk, nDelete, bulkFailed, deleteFailed,
                   returned, csvVars, delVars, envVars>>

\* main().catch(err => { console.log('FAIL'); ...; process.exit(1); })
EntryFail ==
    /\ Alive /\ promise = "rejected"
    /\ exit' = "fail"
    /\ UNCHANGED <<idleVars, pc, promise, store, dbIds, bulkData, bulkEnd, metrics, reported,
                   summary, issuedRows, nBulk, nDelete, bulkFailed, deleteFailed,
                   returned, csvVars, delVars, envVars>>

\* A run that completed (summary printed, nothing pending, no call failed, exit 0)
\* is followed by a second run of the program on the same file and store.
Rerun ==
    /\ run = 1 /\ exit = "success"
    /\ reported /\ bulkData = <<>> /\ bulkEnd = <<>>
    /\ ~bulkFailed /\ ~deleteFailed
    /\ run' = 2
    /\ pc' = "count"
    /\ exit' = "running"
    /\ promise' = "pending"
    /\ dbIds' = <<>>
    /\ products' = <<>>
    /\ rowCount' = 0
    /\ metrics' = MetricsZero
    /\ delPhase' = "none"
    /\ delIds' = <<>>
    /\ readIndex' = 0
    /\ readEnded' = FALSE
    /\ wq' = <<>>
    /\ reported' = FALSE
    /\ summary' = <<>>
    /\ issuedRows' = 0
    /\ nBulk' = 0
    /\ nDelete' = 0
    /\ returned' = MetricsZero
    /\ delDone' = {}
    /\ UNCHANGED <<idleVars, store, file, bulkData, bulkEnd, writing, bulkFailed, deleteFailed,
                   chunkSizeInScope, unhandledMode>>

Next ==
    \/ CountOk \/ CountFail \/ FindOk \/ FindFail
    \/ CsvData \/ BulkDataOk \/ BulkDataFail
    \/ CsvEnd \/ BulkEndOk \/ BulkEndFail
    \/ DeleteRead \/ DeleteWrite \/ DeleteOk \/ DeleteFail \/ DeleteFinish
    \/ EntrySuccess \/ EntryFail

Spec == Init /\ [][Next]_vars

\* the program run, and run once more after a completed run
NextTwice == Next \/ Rerun

SpecTwice == Init /\ [][NextTwice]_vars

\* ------------------------------------------------ chunk producers alone
\* A producer is constructed over N items with chunk size B and read until it
\* pushes null.
ChunkInit ==
    /\ pc = "idle"
    /\ exit = "running"
    /\ promise = "pending"
    /\ run = 1
    /\ store = [i \in Ids |-> NoRecord]
    /\ file = <<>>
    /\ dbIds = <<>>
    /\ products = <<>>
    /\ rowCount = 0
    /\ bulkData = <<>>
    /\ bulkEnd = <<>>
    /\ metrics = MetricsZero
    /\ delPhase = "none"
    /\ delIds = <<>>
    /\ readIndex = 0
    /\ readEnded = FALSE
    /\ wq = <<>>
    /\ writing = <<>>
    /\ reported = FALSE
    /\ summary = <<>>
    /\ chunkSizeInScope = "unknown"
    /\ unhandledMode = "unknown"
    /\ issuedRows = 0
    /\ nBulk = 0
    /\ nDelete = 0
    /\ bulkFailed = FALSE
    /\ deleteFailed = FALSE
    /\ returned = MetricsZero
    /\ delDone = {}
    /\ cKind \in {"ProductStream", "arrayToStream", "DeleteReadableStream"}
    /\ cLen \in 0..MaxItems
    /\ cSize2 \in 2..(2 * MaxChunk)
    /\ cKind = "ProductStream" => cSize2 % 2 = 0
    /\ cKind = "DeleteReadableStream" => cSize2 = 2 * CHUNK_SIZE
    /\ cScope \in BOOLEAN
    /\ cKind # "DeleteReadableStream" => cScope
    /\ cIndex2 = 0
    /\ cOut = <<>>
    /\ cState = "reading"
    /\ GenIdle

ChunkProductStream ==
    /\ cKind = "ProductStream" /\ cState = "reading"
    /\ LET r == ProductStreamRead(cLen, cSize2 \div 2, cIndex2 \div 2)
       IN /\ cIndex2' = 2 * r.index
          /\ cOut' = IF r.kind = "chunk" THEN Append(cOut, r.chunk) ELSE cOut
          /\ cState' = IF r.kind = "end" THEN "ended" ELSE "reading"
    /\ UNCHANGED <<genVars, mainVars, cKind, cLen, cSize2, cScope>>

ChunkArrayToStream ==
    /\ cKind = "arrayToStream" /\ cState = "reading"
    /\ LET r == arrayToStreamRead([j \in 1..cLen |-> j], cSize2, cIndex2)
       IN /\ cIndex2' = r.index2
          /\ cOut' = IF r.kind = "chunk" THEN Append(cOut, r.chunk) ELSE cOut
          /\ cState' = IF r.kind = "end" THEN "ended" ELSE "reading"
    /\ UNCHANGED <<genVars, mainVars, cKind, cLen, cSize2, cScope>>

ChunkDeleteReadable ==
    /\ cKind = "DeleteReadableStream" /\ cState = "reading"
    /\ LET r == DeleteReadableRead([j \in 1..cLen |-> j], cIndex2 \div 2, cScope)
       IN /\ cIndex2' = 2 * r.index
          /\ cOut' = IF r.kind = "chunk" THEN Append(cOut, r.chunk) ELSE cOut
          /\ cState' = CASE r.kind = "end" -> "ended"
                          [] r.kind = "throw" -> "threw"
                          [] OTHER -> "reading"
    /\ UNCHANGED <<genVars, mainVars, cKind, cLen, cSize2, cScope>>

ChunkNext == ChunkProductStream \/ ChunkArrayToStream \/ ChunkDeleteReadable

ChunkSpec == ChunkInit /\ [][ChunkNext]_vars

\* ------------------------------------------------- the dataset generator
\* generate-dataset run with some `size`, on a store and a directory that may
\* hold the data of an earlier run (a product and a line numbered 0).
GenInit ==
    /\ pc = "idle"
    /\ exit = "running"
    /\ promise = "pending"
    /\ run = 1
    /\ store = [i \in Ids |-> NoRecord]
    /\ file = <<>>
    /\ dbIds = <<>>
    /\ products = <<>>
    /\ rowCount = 0
    /\ bulkData = <<>>
    /\ bulkEnd = <<>>
    /\ metrics = MetricsZero
    /\ delPhase = "none"
    /\ delIds = <<>>
    /\ readIndex = 0
    /\ readEnded = FALSE
    /\ wq = <<>>
    /\ writing = <<>>
    /\ reported = FALSE
    /\ summary = <<>>
    /\ chunkSizeInScope = "unknown"
    /\ unhandledMode = "unknown"
    /\ issuedRows = 0
    /\ nBulk = 0
    /\ nDelete = 0
    /\ bulkFailed = FALSE
    /\ deleteFailed = FALSE
    /\ returned = MetricsZero
    /\ delDone = {}
    /\ cKind = "none"
    /\ cLen = 0
    /\ cSize2 = 0
    /\ cIndex2 = 0
    /\ cScope = FALSE
    /\ cOut = <<>>
    /\ cState = "ended"
    /\ gVariant \in {"insertMany", "insertOne"}
    /\ gSize \in Sizes
    /\ gPc = "check"
    /\ gExit = "running"
    /\ gIo = {}
    /\ gStore \in {{}, {0}}
    /\ \E old \in BOOLEAN :
         /\ gHeader = IF old THEN 1 ELSE 0
         /\ gCsv = IF old THEN <<BaseProduct(0)>> ELSE <<>>
    /\ gIndex2 = 0
    /\ gBatch = <<>>
    /\ gPending = {}
    /\ gDecision = [k \in 1..MaxCatalog |-> "none"]
    /\ gMetrics = MetricsZero

GenAlive == gExit = "running"

\* if (!size) throw new Error("Missing 'size' parameter"), at module level:
\* the exception ends the process with code 1 before main() is called
GenSizeCheck ==
    /\ GenAlive /\ gPc = "check"
    /\ IF SizeMissing(gSize)
       THEN gPc' = "threw" /\ gExit' = "fail"
       ELSE gPc' = "connect" /\ gExit' = gExit
    /\ UNCHANGED <<mainVars, chunkVars, gVariant, gSize, gIo, gStore, gHeader, gCsv,
                   gIndex2, gBatch, gPending, gDecision, gMetrics>>

\* await mongoClient.connect()
GenConnectOk ==
    /\ GenAlive /\ gPc = "connect"
    /\ gIo' = gIo \cup {"connect"}
    /\ gPc' = "clear"
    /\ UNCHANGED <<mainVars, chunkVars, gVariant, gSize, gExit, gStore, gHeader, gCsv,
                   gIndex2, gBatch, gPending, gDecision, gMetrics>>

\* connect() rejects: main() rejects and its catch exits with code 1
GenConnectFail ==
    /\ GenAlive /\ gPc = "connect"
    /\ gIo' = gIo \cup {"connect"}
    /\ gPc' = "unconnected"
    /\ gExit' = "fail"
    /\ UNCHANGED <<mainVars, chunkVars, gVariant, gSize, gStore, gHeader, gCsv,
                   gIndex2, gBatch, gPending, gDecision, gMetrics>>

\* clearExistingData: the database is dropped if it is listed, the CSV file is
\* removed if it exists
clearExistingData ==
    /\ GenAlive /\ gPc = "clear"
    /\ gIo' = gIo \cup {"listDatabases"}
                 \cup (IF gStore # {} THEN {"dropDatabase"} ELSE {})
                 \cup (IF gHeader > 0 THEN {"rmSync"} ELSE {})
    /\ gStore' = {}
    /\ gHeader' = 0
    /\ gCsv' = <<>>
    /\ gPc' = "headers"
    /\ UNCHANGED <<mainVars, chunkVars, gVariant, gSize, gExit, gIndex2, gBatch,
                   gPending, gDecision, gMetrics>>

\* generateDataset up to its loop: writeCsvHeaders(), metrics = Metrics.zero(),
\* the stream of baseline products is created
writeCsvHeaders ==
    /\ GenAlive /\ gPc = "headers"
    /\ gIo' = gIo \cup {"appendFileSync"}
    /\ gHeader' = gHeader + 1
    /\ gMetrics' = MetricsZero
    /\ gIndex2' = 0
    /\ gPc' = "read"
    /\ UNCHANGED <<mainVars, chunkVars, gVariant, gSize, gExit, gStore, gCsv, gBatch,
                   gPending, gDecision>>

\* for await (const products of stream): the next batch is taken and its inserts
\* are issued (one insertMany, or one insertOne per product; none for an empty
\* batch); at the end of the stream logMetrics prints, main() resolves and the
\* entry point exits with code 0
GenRead ==
    /\ GenAlive /\ gPc = "read"
    /\ LET r == GenStreamRead(gVariant, gSize, gIndex2)
       IN /\ gIndex2' = r.index2
          /\ IF r.kind = "end"
             THEN /\ gPc' = "done"
                  /\ gExit' = "success"
                  /\ UNCHANGED <<gBatch, gPending, gIo>>
             ELSE /\ gBatch' = r.chunk
                  /\ gPending' = Range(r.chunk)
                  /\ gIo' = IF r.chunk # <<>> THEN gIo \cup {"insert"} ELSE gIo
                  /\ gPc' = IF r.chunk # <<>> THEN "insert" ELSE "read"
                  /\ gExit' = gExit
    /\ UNCHANGED <<mainVars, chunkVars, gVariant, gSize, gStore, gHeader, gCsv,
                   gDecision, gMetrics>>

\* part_001: insertMany(products) is answered, then for each product of the
\* batch generateUpdate decides and writeProductUpdateToCsv writes
GenInsertManyOk ==
    /\ GenAlive /\ gPc = "insert" /\ gVariant = "insertMany"
    /\ gStore' = gStore \cup Range(gBatch)
    /\ \E bands \in [1..Len(gBatch) -> Bands] :
         LET w == WriteBatch(gCsv, gMetrics, gBatch, bands)
         IN /\ gCsv' = w.csv
            /\ gMetrics' = w.metrics
            /\ gDecision' = [k \in 1..MaxCatalog |->
                               IF \E i \in 1..Len(gBatch) : gBatch[i] = k
                               THEN bands[CHOOSE i \in 1..Len(gBatch) : gBatch[i] = k]
                               ELSE gDecision[k]]
    /\ gPending' = {}
    /\ gPc' = "read"
    /\ gIo' = gIo \cup {"appendFileSync"}
    /\ UNCHANGED <<mainVars, chunkVars, gVariant, gSize, gExit, gHeader, gIndex2, gBatch>>

\* generate-dataset.js: the insertOne of one product of the batch is answered,
\* then generateUpdate decides and writeProductUpdateToCsv writes; Promise.all
\* lets the loop go on once every product of the batch is through
GenInsertOneOk ==
    /\ GenAlive /\ gPc = "insert" /\ gVariant = "insertOne"
    /\ \E k \in gPending, band \in Bands :
         LET product == BaseProduct(k)
             w == writeProductUpdateToCsv(gCsv, product, generateUpdate(product, band))
         IN /\ gStore' = gStore \cup {k}
            /\ gCsv' = w.csv
            /\ gMetrics' = MetricsMerge(gMetrics, w.metrics)
            /\ gDecision' = [gDecision EXCEPT ![k] = band]
            /\ gPending' = gPending \ {k}
            /\ gPc' = IF gPending' = {} THEN "read" ELSE "insert"
    /\ gIo' = gIo \cup {"appendFileSync"}
    /\ UNCHANGED <<mainVars, chunkVars, gVariant, gSize, gExit, gHeader, gIndex2, gBatch>>

\* an insert rejects: generateDataset and main() reject, the entry point's catch
\* exits with code 1
GenInsertFail ==
    /\ GenAlive /\ gPc = "insert"
    /\ gPc' = "failed"
    /\ gExit' = "fail"
    /\ UNCHANGED <<mainVars, chunkVars, gVariant, gSize, gIo, gStore, gHeader, gCsv,
                   gIndex2, gBatch, gPending, gDecision, gMetrics>>

GenNext ==
    \/ GenSizeCheck \/ GenConnectOk \/ GenConnectFail
    \/ clearExistingData \/ writeCsvHeaders
    \/ GenRead \/ GenInsertManyOk \/ GenInsertOneOk \/ GenInsertFail

GenSpec == GenInit /\ [][GenNext]_vars

\* ------------------------------------------------------------ properties
\* D: the identifiers of all the rows of the file
FileIds == {file[i].id : i \in 1..Len(file)}

NoCallPending == bulkData = <<>> /\ bulkEnd = <<>> /\ writing = <<>>

NoCallFailed == ~bulkFailed /\ ~deleteFailed

\* the run went through its three phases, every call was answered, none failed
Completed == pc = "ended" /\ reported /\ NoCallPending /\ NoCallFailed

\* C1: the deletion set handed to the delete phase is S \ D, S the identifiers
\* the store returned and D the identifiers of ALL the rows of the CSV stream.
C1_DeletionSetIsStoreMinusDesired ==
    delPhase # "none" => Range(delIds) = Range(dbIds) \ FileIds

C3_BatchSizesSumToRowCount ==
    (pc = "ended" /\ delPhase # "none" /\ bulkData = <<>> /\ bulkEnd = <<>>
        /\ ~bulkFailed)
    => issuedRows = rowCount

C5_StoreWriteFailureRejects ==
    (bulkFailed \/ deleteFailed) => (promise = "rejected" /\ exit # "success")

\* C6: success is signalled only when every upsert and delete call has been
\* issued and acknowledged and the summary has been printed.
C6_SuccessOnlyAfterAllPhases ==
    exit = "success" =>
        /\ NoCallPending
        /\ delPhase = "finished"
        /\ reported

C8_UpsertFailureAborts ==
    [][bulkFailed => (nBulk' = nBulk /\ nDelete' = nDelete /\ reported' = reported)]_vars

\* the rows of the file have pairwise different identifiers
DistinctIds == \A i, j \in 1..Len(file) : file[i].id = file[j].id => i = j

RECURSIVE Flatten(_)
Flatten(ss) == IF ss = <<>> THEN <<>> ELSE Head(ss) \o Flatten(Tail(ss))

\* C10: a chunk producer over N items with chunk size B >= 1 emits the items in
\* increasing index order in batches of at most B, only the last of which may
\* be smaller than B, and ends after exactly ceil(N/B) batches that hold the N
\* items between them (none when N = 0).
C10_ChunkingComplete ==
    /\ cState # "threw"
    /\ Flatten(cOut) = [j \in 1..Len(Flatten(cOut)) |-> j]
    /\ \A i \in 1..Len(cOut) : 2 * Len(cOut[i]) <= cSize2
    /\ \A i \in 1..(Len(cOut) - 1) : 2 * Len(cOut[i]) = cSize2
    /\ cState = "ended" =>
           /\ Len(Flatten(cOut)) = cLen
           /\ Len(cOut) = (2 * cLen + cSize2 - 1) \div cSize2

\* C11: when the store's count call or its identifier fetch fails, the promise of
\* updateDataset rejects, the run never signals success, and no bulkWrite and no
\* deleteMany is issued, then or afterwards.
C11_FetchFailureAborts ==
    /\ [](pc = "rejected" =>
            /\ promise = "rejected"
            /\ exit # "success"
            /\ nBulk = 0 /\ nDelete = 0 /\ delPhase = "none")
    /\ [][pc = "rejected" => (nDelete' = nDelete /\ nBulk' = nBulk /\ store' = store)]_vars

\* a fetch failed on a store that holds products, and the process ended with code 1
C11_Witness ==
    pc = "rejected" /\ exit = "fail" /\ StoreIds(store) # {}

\* a catalog size: a number that is at least 1
ValidSize(size) == size.kind = "number" /\ size.n >= 1

\* C12: when `size` is missing or invalid (zero, negative, not a number) the
\* generator fails before any I/O: no connection to the store, no database
\* dropped, no CSV file removed or written, and no success signalled.
C12_InvalidSizeFailsBeforeIO ==
    ~ValidSize(gSize) => (gIo = {} /\ gExit # "success")

\* the identifier snapshot dbIds has been taken
SnapshotTaken == pc \in {"stream", "ended"}

WritesInFlight ==
    (IF bulkData # <<>> THEN 1 ELSE 0) + (IF bulkEnd # <<>> THEN 1 ELSE 0)
        + (IF writing # <<>> THEN 1 ELSE 0)

\* C14: batches are processed one after the other: at no point are two store
\* write calls (bulkWrite and/or deleteMany) in flight at the same time.
C14_OneWriteInFlight == WritesInFlight <= 1

\* C15: every bulk upsert call carries between 1 and CHUNK_SIZE records and
\* every delete call between 1 and CHUNK_SIZE identifiers; an empty CSV issues
\* no upsert call and an empty deletion set no delete call.
C15_BatchSizeBounds ==
    /\ [][nBulk' > nBulk => (issuedRows' - issuedRows) \in 1..CHUNK_SIZE]_vars
    /\ [][nDelete' > nDelete => Len(writing') \in 1..CHUNK_SIZE]_vars
    /\ [](rowCount = 0 => nBulk = 0)
    /\ []((delPhase # "none" /\ delIds = <<>>) => nDelete = 0)

\* C16: the summary is printed only when every bulkWrite and deleteMany issued
\* has returned; after it no counter changes, and the counters printed are the
\* final ones.
C16_MetricsFrozenOnceReported ==
    /\ [][(~reported /\ reported') => NoCallPending']_vars
    /\ [][reported => metrics' = metrics]_vars
    /\ [](reported => summary[1].metrics = metrics)

\* the CSV data lines written for baseline product k: its own and the line of
\* the product added with it
LinesOf(k) == SelectSeq(gCsv, LAMBDA l : l.id = k \/ l.id = NewId(k))

\* the lines the decision d stands for
EncodingOf(k, d) ==
    CASE d = "delete" -> <<>>
      [] d = "update" -> <<[id |-> k, v |-> "upd"]>>
      [] d = "add" -> <<BaseProduct(k), [id |-> NewId(k), v |-> "new"]>>
      [] OTHER -> <<BaseProduct(k)>>

\* clearExistingData has run: the store and the file hold this run's data only
GenCleared == gPc \in {"headers", "read", "insert", "done", "failed"}

\* C17: for each baseline product the generator writes no line when it decides
\* delete, one line with the same id for update or unchanged, and two lines
\* (the product, then one with a new id) for add-new, and the product is in the
\* store when the decision is written; after generation the number of CSV data
\* lines is catalogSize - deletedCount + addedCount.
C17_GeneratorCsvEncoding ==
    /\ \A k \in 1..MaxCatalog :
         gDecision[k] # "none" =>
            (k \in gStore /\ LinesOf(k) = EncodingOf(k, gDecision[k]))
    /\ GenCleared =>
         \A i \in 1..Len(gCsv) : \E k \in gStore : gCsv[i].id \in {k, NewId(k)}
    /\ (gPc = "done" /\ gSize.kind = "number") =>
         Len(gCsv) = gSize.n - gMetrics.deletedCount + gMetrics.addedCount

\* the k-th chunk of the deletion set, k = 1, 2, ...
DeleteChunk(k) == Slice(delIds, (k - 1) * CHUNK_SIZE, k * CHUNK_SIZE)

====
